---- MODULE Spec2Model ----
(***************************************************************************)
(* Model of the Pantry Plan backend (src/backend/main.py): the JSON file   *)
(* pantry_db.json and the GET, POST and PUT handlers of /pantry/, served   *)
(* one at a time (Spec, SpecStorage) and concurrently (SpecConc,           *)
(* SpecTorn), and _normalize_row on its own (SpecRows).                    *)
(*                                                                         *)
(* Python str values (names, dates) are sequences of code points, so that  *)
(* str.strip, str.lower and the ordering used by sorted() are computed     *)
(* rather than assumed.  A stored row is a Python dict: a function whose   *)
(* DOMAIN is the set of keys that are present.                             *)
(***************************************************************************)
EXTENDS Integers, Sequences, FiniteSets, TLC

VARIABLES
    pantry_db,     \* the file pantry_db.json: [exists, kind, data]
    prev,          \* history: pantry_db before the last request
    last,          \* history: the last request and its response
    createdOnly,   \* history: TRUE while only POST requests have been served
    requested,     \* history: name key -> sum of the quantities POSTed for it
    nops,          \* number of requests served
    requests       \* the requests in progress, one per worker

vars == <<pantry_db, prev, last, createdOnly, requested, nops, requests>>

\* Bound on the number of requests in a run.
MaxOps == 3

-----------------------------------------------------------------------------
(* Request inputs *)

\* "M", " m ", "e", "b"
Names == { <<77>>, <<32, 109, 32>>, <<101>>, <<98>> }
\* " e "
PutNames == { <<32, 101, 32>> }
\* "10", "9"  ("10" sorts before "9" as a string)
Dates == { <<49, 48>>, <<57>> }
\* ["9", "10"], ["9", "10", "9"]
DateLists == { << <<57>>, <<49, 48>> >>, << <<57>>, <<49, 48>>, <<57>> >> }
Quantities == { 3, 5 }
PutQuantities == { 0 }
Units == { "kg" }
PutUnits == { "g" }
ItemIds == { 1, 999 }

\* PantryItemCreate: every field is required.
PantryItemCreate ==
    [name : Names, quantity : Quantities, unit : Units, expiry_date : Dates]

UpdateFields == {"name", "quantity", "unit", "expiry_dates"}

\* PantryItemUpdate: a field that is omitted (None) is not in the DOMAIN.
PantryItemUpdate ==
    { [f \in S |-> CASE f = "name" -> n
                     [] f = "quantity" -> q
                     [] f = "unit" -> u
                     [] OTHER -> ds] :
        S \in SUBSET UpdateFields, n \in PutNames, q \in PutQuantities,
        u \in PutUnits, ds \in DateLists }

-----------------------------------------------------------------------------
(* Python str and list primitives *)

\* Characters removed by str.strip() (ASCII range).
Whitespace == {9, 10, 11, 12, 13, 28, 29, 30, 31, 32}

RECURSIVE lstrip(_)
lstrip(s) ==
    IF s = <<>> THEN <<>>
    ELSE IF Head(s) \in Whitespace THEN lstrip(Tail(s)) ELSE s

RECURSIVE rstrip(_)
rstrip(s) ==
    IF s = <<>> THEN <<>>
    ELSE IF s[Len(s)] \in Whitespace THEN rstrip(SubSeq(s, 1, Len(s) - 1)) ELSE s

strip(s) == rstrip(lstrip(s))

lower(s) == [i \in 1..Len(s) |-> IF s[i] \in 65..90 THEN s[i] + 32 ELSE s[i]]

\* s < t in Python's ordering of str (code point by code point).
RECURSIVE StrLess(_, _)
StrLess(s, t) ==
    IF t = <<>> THEN FALSE
    ELSE IF s = <<>> THEN TRUE
    ELSE IF Head(s) # Head(t) THEN Head(s) < Head(t)
    ELSE StrLess(Tail(s), Tail(t))

\* Variant: s.startswith(sub).
str_in_prefix(sub, s) == Len(sub) <= Len(s) /\ SubSeq(s, 1, Len(sub)) = sub

\* sub in s, for two str.
RECURSIVE str_in(_, _)
str_in(sub, s) ==
    IF Len(sub) > Len(s) THEN FALSE
    ELSE IF SubSeq(s, 1, Len(sub)) = sub THEN TRUE
    ELSE str_in(sub, Tail(s))

\* x in xs
In(x, xs) == \E i \in 1..Len(xs) : xs[i] = x

RECURSIVE insort(_, _)
insort(xs, x) ==
    IF xs = <<>> THEN <<x>>
    ELSE IF StrLess(x, Head(xs)) THEN <<x>> \o xs
    ELSE <<Head(xs)>> \o insort(Tail(xs), x)

\* Variant: the list is stored as given.
sorted_unsorted(xs) == xs

\* sorted(xs) for a list of str.
RECURSIVE sorted(_)
sorted(xs) ==
    IF xs = <<>> THEN <<>>
    ELSE insort(sorted(SubSeq(xs, 1, Len(xs) - 1)), xs[Len(xs)])

-----------------------------------------------------------------------------
(* Rows and storage *)

\* {**row, key: value}
DictSet(row, key, value) ==
    [k \in DOMAIN row \cup {key} |-> IF k = key THEN value ELSE row[k]]

\* Variant: the legacy date is migrated again on every call.
_normalize_row_again(row) ==
    IF "expiry_date" \in DOMAIN row
    THEN DictSet(row, "expiry_dates",
                 (IF "expiry_dates" \in DOMAIN row THEN row["expiry_dates"] ELSE <<>>)
                     \o <<row["expiry_date"]>>)
    ELSE IF "expiry_dates" \notin DOMAIN row
    THEN DictSet(row, "expiry_dates", <<>>)
    ELSE row

\* Variant: a row with neither field is returned as it is.
_normalize_row_legacy_only(row) ==
    IF "expiry_dates" \notin DOMAIN row /\ "expiry_date" \in DOMAIN row
    THEN DictSet(row, "expiry_dates", <<row["expiry_date"]>>)
    ELSE row

\* Ensure row has expiry_dates (migrate from expiry_date if needed).
_normalize_row(row) ==
    LET r1 == IF "expiry_dates" \notin DOMAIN row /\ "expiry_date" \in DOMAIN row
              THEN DictSet(row, "expiry_dates", <<row["expiry_date"]>>)
              ELSE row
    IN IF "expiry_dates" \notin DOMAIN r1
       THEN DictSet(r1, "expiry_dates", <<>>)
       ELSE r1

\* The content of a file is a JSON array ("list", the rows in data), some
\* other JSON value ("other") or text that is not JSON ("invalid").
FileKinds == {"list", "other", "invalid"}

\* A file that does not exist.
NoFile == [exists |-> FALSE, kind |-> "list", data |-> <<>>]

\* json.load(f) raises json.JSONDecodeError: the file exists and is not JSON.
\* The exception is not caught in _load_db nor in the handlers.
_load_db_raises(file) == file.exists /\ file.kind = "invalid"

\* The list read from pantry_db.json; [] when the file does not exist or
\* holds JSON that is not a list.
_load_db(file) ==
    IF ~file.exists THEN <<>>
    ELSE IF file.kind = "list" THEN file.data ELSE <<>>

\* The file after json.dump(items) has been written to it.
_save_db(items) == [exists |-> TRUE, kind |-> "list", data |-> items]

\* The file right after open(DB_PATH, "w"): truncated, nothing written yet.
truncated == [exists |-> TRUE, kind |-> "invalid", data |-> <<>>]

\* items = [_normalize_row(dict(r)) for r in _load_db()]
load_items(file) ==
    LET rows == _load_db(file)
    IN [i \in 1..Len(rows) |-> _normalize_row(rows[i])]

\* max(item["id"] for item in items)
max_id(items) ==
    CHOOSE m \in {items[i]["id"] : i \in 1..Len(items)} :
        \A j \in 1..Len(items) : items[j]["id"] <= m

\* Variant: every new item gets id 1.
_next_id_one(items) == 1

\* Variant: the "+ 1" is missing.
_next_id_max(items) == IF items = <<>> THEN 1 ELSE max_id(items)

\* Variant: the id follows the first row's instead of the largest.
_next_id_first(items) == IF items = <<>> THEN 1 ELSE items[1]["id"] + 1

_next_id(items) == IF items = <<>> THEN 1 ELSE max_id(items) + 1

\* Variant: the comparison is case-sensitive.
_find_by_name_cased(items, name) ==
    LET hits == {i \in 1..Len(items) : strip(items[i]["name"]) = strip(name)}
    IN IF hits = {} THEN 0 ELSE CHOOSE i \in hits : \A j \in hits : i <= j

\* Index of the first row whose name matches, 0 for None.
_find_by_name(items, name) ==
    LET name_lower == lower(strip(name))
        hits == {i \in 1..Len(items) : lower(strip(items[i]["name"])) = name_lower}
    IN IF hits = {} THEN 0 ELSE CHOOSE i \in hits : \A j \in hits : i <= j

\* Variant: the response model is configured to keep extra fields.
PantryItem_extra(row) ==
    [k \in DOMAIN row \cup {"expiry_dates"} |->
        IF k = "expiry_dates" /\ k \notin DOMAIN row THEN <<>> ELSE row[k]]

\* PantryItem(**row): the response model keeps its five fields only.
PantryItem(row) ==
    [k \in {"id", "name", "quantity", "unit", "expiry_dates"} |->
        IF k = "expiry_dates" /\ k \notin DOMAIN row THEN <<>> ELSE row[k]]

-----------------------------------------------------------------------------
(* GET /pantry/ *)

\* Variant: the normalized rows are written back by the read.
get_pantry_saving(file, params) ==
    LET rows == load_items(file)
    IN IF _load_db_raises(file)
       THEN [file |-> file, status |-> 500, result |-> <<>>]
       ELSE [file |-> _save_db(rows), status |-> 200,
             result |-> [i \in 1..Len(rows) |-> PantryItem(rows[i])]]

\* params holds q when the query parameter is given (q is None otherwise).
get_pantry(file, params) ==
    LET rows == load_items(file)
        filtered ==
            IF "q" \in DOMAIN params /\ strip(params["q"]) # <<>>
            THEN LET query == lower(strip(params["q"]))
                 IN SelectSeq(rows, LAMBDA r : str_in(query, lower(r["name"])))
            ELSE rows
    IN IF _load_db_raises(file)
       THEN [file |-> file, status |-> 500, result |-> <<>>]
       ELSE [file |-> file, status |-> 200,
             result |-> [i \in 1..Len(filtered) |-> PantryItem(filtered[i])]]

-----------------------------------------------------------------------------
(* POST /pantry/ *)

\* Variant: the date is appended without the membership test.
merge_dates_append(dates, expiry_date) == sorted(Append(dates, expiry_date))

\* Variant: the date is never appended.
merge_dates_keep(dates, expiry_date) == sorted(dates)

\* dates after the merge: append the date if absent, then sort.
merge_dates(dates, expiry_date) ==
    sorted(IF In(expiry_date, dates) THEN dates ELSE Append(dates, expiry_date))

\* Variant: the merge also takes the unit of the request.
merge_row_unit(existing, item) ==
    [existing EXCEPT !["quantity"] = existing["quantity"] + item.quantity,
                     !["unit"] = item.unit,
                     !["expiry_dates"] = merge_dates(existing["expiry_dates"],
                                                     item.expiry_date)]

\* The existing row after a request has been merged into it.
merge_row(existing, item) ==
    [existing EXCEPT !["quantity"] = existing["quantity"] + item.quantity,
                     !["expiry_dates"] = merge_dates(existing["expiry_dates"],
                                                     item.expiry_date)]

\* The row of a newly created item.
new_row(items, item) ==
    [id |-> _next_id(items), name |-> strip(item.name),
     quantity |-> item.quantity, unit |-> item.unit,
     expiry_dates |-> <<item.expiry_date>>]

post_pantry(file, item) ==
    LET items == load_items(file)
        existing == _find_by_name(items, item.name)
    IN IF _load_db_raises(file)
       THEN [file |-> file, status |-> 500, merged |-> FALSE, result |-> <<>>]
       ELSE IF existing # 0
       THEN LET merged == [items EXCEPT ![existing] = merge_row(items[existing], item)]
            IN [file |-> _save_db(merged), status |-> 201, merged |-> TRUE,
                result |-> PantryItem(merged[existing])]
       ELSE LET new_item == new_row(items, item)
            IN [file |-> _save_db(Append(items, new_item)), status |-> 201,
                merged |-> FALSE, result |-> new_item]

-----------------------------------------------------------------------------
(* PUT /pantry/{item_id}/ *)

\* Variant: an omitted quantity is stored as 0.
apply_update_replace(row, body) ==
    [k \in DOMAIN row |->
        IF k = "name" /\ "name" \in DOMAIN body THEN strip(body["name"])
        ELSE IF k = "quantity"
             THEN (IF "quantity" \in DOMAIN body THEN body["quantity"] ELSE 0)
        ELSE IF k = "unit" /\ "unit" \in DOMAIN body THEN body["unit"]
        ELSE IF k = "expiry_dates" /\ "expiry_dates" \in DOMAIN body
             THEN sorted(body["expiry_dates"])
        ELSE row[k]]

\* Variant: the name is stored as given.
apply_update_unstripped(row, body) ==
    [k \in DOMAIN row |->
        IF k = "name" /\ "name" \in DOMAIN body THEN body["name"]
        ELSE IF k = "quantity" /\ "quantity" \in DOMAIN body THEN body["quantity"]
        ELSE IF k = "unit" /\ "unit" \in DOMAIN body THEN body["unit"]
        ELSE IF k = "expiry_dates" /\ "expiry_dates" \in DOMAIN body
             THEN sorted(body["expiry_dates"])
        ELSE row[k]]

\* The row after every field present in the body has been overwritten.
apply_update(row, body) ==
    [k \in DOMAIN row |->
        IF k = "name" /\ "name" \in DOMAIN body THEN strip(body["name"])
        ELSE IF k = "quantity" /\ "quantity" \in DOMAIN body THEN body["quantity"]
        ELSE IF k = "unit" /\ "unit" \in DOMAIN body THEN body["unit"]
        ELSE IF k = "expiry_dates" /\ "expiry_dates" \in DOMAIN body
             THEN sorted(body["expiry_dates"])
        ELSE row[k]]

\* Variant: when no row matches, the last row is updated and saved anyway.
put_pantry_fallthrough(file, item_id, body) ==
    LET items == load_items(file)
        hits == {i \in 1..Len(items) : items[i]["id"] = item_id}
        i == IF hits # {} THEN CHOOSE h \in hits : \A j \in hits : h <= j
             ELSE Len(items)
        updated == IF i = 0 THEN items
                   ELSE [items EXCEPT ![i] = apply_update(items[i], body)]
    IN [file |-> _save_db(updated),
        status |-> IF hits # {} THEN 200 ELSE 404,
        result |-> IF hits # {} THEN PantryItem(updated[i]) ELSE <<>>]

put_pantry(file, item_id, body) ==
    LET items == load_items(file)
        hits == {i \in 1..Len(items) : items[i]["id"] = item_id}
    IN IF _load_db_raises(file)
       THEN [file |-> file, status |-> 500, result |-> <<>>]
       ELSE IF hits # {}
       THEN LET i == CHOOSE h \in hits : \A j \in hits : h <= j
                updated == [items EXCEPT ![i] = apply_update(items[i], body)]
            IN [file |-> _save_db(updated), status |-> 200,
                result |-> PantryItem(updated[i])]
       ELSE [file |-> file, status |-> 404, result |-> <<>>]

-----------------------------------------------------------------------------
(* The service: requests are served one at a time *)

NoRequested == [k \in {} |-> 0]

\* The workers that serve requests, and a worker with no request.
Workers == {1, 2}
Idle == [pc |-> "idle"]

Init ==
    /\ pantry_db = NoFile
    /\ prev = pantry_db
    /\ last = [op |-> "init"]
    /\ createdOnly = TRUE
    /\ requested = NoRequested
    /\ nops = 0
    /\ requests = [w \in Workers |-> Idle]

Post(item) ==
    /\ nops < MaxOps
    /\ LET r == post_pantry(pantry_db, item)
           key == lower(strip(item.name))
       IN /\ pantry_db' = r.file
          /\ last' = [op |-> "post", item |-> item, status |-> r.status,
                      merged |-> r.merged, result |-> r.result]
          /\ requested' =
                IF createdOnly
                THEN [k \in DOMAIN requested \cup {key} |->
                        (IF k \in DOMAIN requested THEN requested[k] ELSE 0)
                        + (IF k = key THEN item.quantity ELSE 0)]
                ELSE requested
    /\ prev' = pantry_db
    /\ nops' = nops + 1
    /\ UNCHANGED <<createdOnly, requests>>

Put(item_id, body) ==
    /\ nops < MaxOps
    /\ LET r == put_pantry(pantry_db, item_id, body)
       IN /\ pantry_db' = r.file
          /\ last' = IF r.status = 200
                      THEN [op |-> "put", item_id |-> item_id, body |-> body,
                            status |-> r.status, result |-> r.result]
                      ELSE [op |-> "put", item_id |-> item_id,
                            status |-> r.status]
    /\ prev' = pantry_db
    /\ createdOnly' = FALSE
    /\ requested' = NoRequested
    /\ nops' = nops + 1
    /\ UNCHANGED requests

Next ==
    \/ \E item \in PantryItemCreate : Post(item)
    \/ \E item_id \in ItemIds, body \in PantryItemUpdate : Put(item_id, body)

Spec == Init /\ [][Next]_vars

-----------------------------------------------------------------------------
(* The service on a pantry_db.json that it did not write itself: the file   *)
(* may hold legacy rows, JSON that is not a list, or text that is not JSON. *)

\* "Egg", "Bread", "Beer"
Eggs == [id |-> 1, name |-> <<69, 103, 103>>, quantity |-> 12,
         unit |-> "count", expiry_dates |-> << <<49, 48>>, <<57>> >>]
\* A legacy row: expiry_date only.
Bread == [id |-> 2, name |-> <<66, 114, 101, 97, 100>>, quantity |-> 1,
          unit |-> "loaf", expiry_date |-> <<57>>]
\* A row with neither field.
Beer == [id |-> 3, name |-> <<66, 101, 101, 114>>, quantity |-> 6,
         unit |-> "can"]
\* A row with both fields.
Both == [id |-> 4, name |-> <<101>>, quantity |-> 2, unit |-> "kg",
         expiry_dates |-> << <<49, 48>> >>, expiry_date |-> <<57>>]

StoredLists ==
    { <<>>, <<Bread>>, <<Eggs, Bread>>, <<Bread, Beer, Eggs>>, <<Both, Beer>> }

StoredFiles ==
    {NoFile, truncated, [exists |-> TRUE, kind |-> "other", data |-> <<>>]}
        \cup {_save_db(rows) : rows \in StoredLists}

\* None, "", " ", "e", " EG ", "zz"
QueryParams ==
    {NoRequested} \cup
    {[q |-> f] : f \in { <<>>, <<32>>, <<101>>, <<32, 69, 71, 32>>,
                          <<122, 122>> }}

\* " egg " and "Milk"
StorageCreate ==
    { [name |-> <<32, 101, 103, 103, 32>>, quantity |-> 6, unit |-> "box",
       expiry_date |-> <<57>>],
      [name |-> <<77, 105, 108, 107>>, quantity |-> 1, unit |-> "l",
       expiry_date |-> <<49, 48>>] }

StorageUpdate ==
    { [quantity |-> 0], [name |-> <<32, 66, 101, 101, 114, 32>>] }

StorageIds == {2, 999}

InitStorage ==
    /\ pantry_db \in StoredFiles
    /\ prev = pantry_db
    /\ last = [op |-> "init"]
    /\ createdOnly = FALSE
    /\ requested = NoRequested
    /\ nops = 0
    /\ requests = [w \in Workers |-> Idle]

Get(params) ==
    /\ nops < MaxOps
    /\ LET r == get_pantry(pantry_db, params)
       IN /\ pantry_db' = r.file
          /\ last' = [op |-> "get", params |-> params, status |-> r.status,
                      result |-> r.result]
    /\ prev' = pantry_db
    /\ nops' = nops + 1
    /\ UNCHANGED <<createdOnly, requested, requests>>

NextStorage ==
    \/ \E params \in QueryParams : Get(params)
    \/ \E item \in StorageCreate : Post(item)
    \/ \E item_id \in StorageIds, body \in StorageUpdate : Put(item_id, body)

SpecStorage == InitStorage /\ [][NextStorage]_vars

-----------------------------------------------------------------------------
(* _normalize_row applied to raw rows, once and once more *)

\* Zero or one value of S.
Opt(S) == {<<>>} \cup {<<x>> : x \in S}

\* [], ["9"], ["10", "9"], ["9", "10"], ["9", "9"]
RawDateLists ==
    { <<>>, << <<57>> >>, << <<49, 48>>, <<57>> >>, << <<57>>, <<49, 48>> >>,
      << <<57>>, <<57>> >> }

\* A row as json.load returns it: expiry_dates and expiry_date are optional.
RawRow(name, quantity, dates, legacy) ==
    [k \in {"id", "name", "quantity", "unit"}
            \cup (IF dates # <<>> THEN {"expiry_dates"} ELSE {})
            \cup (IF legacy # <<>> THEN {"expiry_date"} ELSE {}) |->
        CASE k = "id" -> 1
          [] k = "name" -> name
          [] k = "quantity" -> quantity
          [] k = "unit" -> "kg"
          [] k = "expiry_dates" -> dates[1]
          [] OTHER -> legacy[1]]

RawRows ==
    {RawRow(n, q, ds, lg) :
        n \in {<<77>>, <<101>>}, q \in {1, 2},
        ds \in Opt(RawDateLists), lg \in Opt(Dates)}

InitRows ==
    /\ pantry_db = NoFile
    /\ prev = pantry_db
    /\ last \in {[op |-> "row", input |-> r, row |-> r, times |-> 0] : r \in RawRows}
    /\ createdOnly = FALSE
    /\ requested = NoRequested
    /\ nops = 0
    /\ requests = [w \in Workers |-> Idle]

\* row = _normalize_row(row), at most twice.
Normalize ==
    /\ last.times < 2
    /\ last' = [op |-> "row", input |-> last.row,
                row |-> _normalize_row(last.row), times |-> last.times + 1]
    /\ UNCHANGED <<pantry_db, prev, createdOnly, requested, nops, requests>>

NextRows == Normalize

SpecRows == InitRows /\ [][NextRows]_vars

-----------------------------------------------------------------------------
(* Concurrent requests: the handlers take no lock, so between the load and  *)
(* the save of one request other requests may load and save.                *)

ConcCreate ==
    {i \in PantryItemCreate : i.quantity = 3 /\ i.expiry_date = <<57>>}

ConcUpdate == {b \in PantryItemUpdate : DOMAIN b \in {{"quantity"}, {"name"}}}

ConcRequests ==
    {[op |-> "post", item |-> i] : i \in ConcCreate}
        \cup {[op |-> "put", item_id |-> 1, body |-> b] : b \in ConcUpdate}

\* Variant: the rows are read again under a lock when the request saves.
snapshot_fresh(at_load, at_save) == at_save

\* The rows a handler works on are those it loaded in its first statement;
\* they are not read again before _save_db.
snapshot(at_load, at_save) == at_load

\* The handler of a request, run on the file it loaded.
handle(req, file) ==
    IF req.op = "post" THEN post_pantry(file, req.item)
    ELSE put_pantry(file, req.item_id, req.body)

\* The handler calls _save_db only on its success paths.
Saves(r) == r.status \in {200, 201}

InitConc ==
    /\ pantry_db = NoFile
    /\ prev = pantry_db
    /\ last = [op |-> "init", worker |-> 0, saves |-> 0]
    /\ createdOnly = FALSE
    /\ requested = NoRequested
    /\ nops = 0
    /\ requests = [w \in Workers |-> Idle]

\* A worker takes a request and executes _load_db().
Load(w, req) ==
    /\ nops < MaxOps
    /\ requests[w].pc \in {"idle", "done"}
    /\ requests' = [requests EXCEPT ![w] =
                        [pc |-> "loaded", req |-> req, snap |-> pantry_db,
                         seen |-> last.saves]]
    /\ nops' = nops + 1
    /\ UNCHANGED <<pantry_db, prev, last, createdOnly, requested>>

\* The request ends without a save: not found, or the load raised.
Respond(w) ==
    /\ requests[w].pc = "loaded"
    /\ LET r == handle(requests[w].req, snapshot(requests[w].snap, pantry_db))
       IN /\ ~Saves(r)
          /\ requests' = [requests EXCEPT ![w] =
                [pc |-> "done", req |-> requests[w].req,
                 snap |-> requests[w].snap, seen |-> requests[w].seen,
                 status |-> r.status, result |-> r.result, savedAs |-> 0]]
    /\ UNCHANGED <<pantry_db, prev, last, createdOnly, requested, nops>>

\* The request computes its rows and _save_db writes them, in one step.
Save(w) ==
    /\ requests[w].pc = "loaded"
    /\ LET r == handle(requests[w].req, snapshot(requests[w].snap, pantry_db))
       IN /\ Saves(r)
          /\ pantry_db' = r.file
          /\ requests' = [requests EXCEPT ![w] =
                [pc |-> "done", req |-> requests[w].req,
                 snap |-> requests[w].snap, seen |-> requests[w].seen,
                 status |-> r.status, result |-> r.result,
                 savedAs |-> last.saves + 1]]
    /\ prev' = pantry_db
    /\ last' = [op |-> "save", worker |-> w, saves |-> last.saves + 1]
    /\ UNCHANGED <<createdOnly, requested, nops>>

NextConc ==
    \/ \E w \in Workers, req \in ConcRequests : Load(w, req)
    \/ \E w \in Workers : Respond(w)
    \/ \E w \in Workers : Save(w)

SpecConc == InitConc /\ [][NextConc]_vars

-----------------------------------------------------------------------------
(* Concurrent requests, with _save_db as the file system sees it: open(..., *)
(* "w") truncates the file, and the text arrives when the file is flushed.  *)

\* open(DB_PATH, "w") of _save_db.
SaveOpen(w) ==
    /\ requests[w].pc = "loaded"
    /\ LET r == handle(requests[w].req, snapshot(requests[w].snap, pantry_db))
       IN /\ Saves(r)
          /\ requests' = [requests EXCEPT ![w] =
                [pc |-> "writing", req |-> requests[w].req,
                 snap |-> requests[w].snap, seen |-> requests[w].seen,
                 status |-> r.status, result |-> r.result, file |-> r.file,
                 opened |-> last.saves]]
    /\ pantry_db' = truncated
    /\ prev' = pantry_db
    /\ UNCHANGED <<last, createdOnly, requested, nops>>

\* json.dump and the close of the file.  The text is written from offset 0
\* without truncating again: if another request has written since this one
\* opened the file, a tail of that text may remain after this one's.
SaveClose(w) ==
    /\ requests[w].pc = "writing"
    /\ \E out \in {requests[w].file} \cup
                    (IF requests[w].opened # last.saves THEN {truncated} ELSE {}) :
            pantry_db' = out
    /\ requests' = [requests EXCEPT ![w] =
            [pc |-> "done", req |-> requests[w].req,
             snap |-> requests[w].snap, seen |-> requests[w].seen,
             status |-> requests[w].status, result |-> requests[w].result,
             savedAs |-> last.saves + 1]]
    /\ prev' = pantry_db
    /\ last' = [op |-> "save", worker |-> w, saves |-> last.saves + 1]
    /\ UNCHANGED <<createdOnly, requested, nops>>

NextTorn ==
    \/ \E w \in Workers, req \in ConcRequests : Load(w, req)
    \/ \E w \in Workers : Respond(w)
    \/ \E w \in Workers : SaveOpen(w)
    \/ \E w \in Workers : SaveClose(w)

SpecTorn == InitConc /\ [][NextTorn]_vars

-----------------------------------------------------------------------------
(* Vocabulary of the properties *)

\* The persisted collection now and before the last request.
Collection == _load_db(pantry_db)
PrevCollection == _load_db(prev)

Ids(c) == {c[i]["id"] : i \in 1..Len(c)}

\* The merge key of a name: trimmed and lowercased.
Key(name) == lower(strip(name))

WithKey(c, k) == {i \in 1..Len(c) : Key(c[i]["name"]) = k}
WithId(c, id) == {i \in 1..Len(c) : c[i]["id"] = id}

Count(x, xs) == Cardinality({i \in 1..Len(xs) : xs[i] = x})
NoDup(xs) == \A i, j \in 1..Len(xs) : i # j => xs[i] # xs[j]
Ascending(xs) == \A i, j \in 1..Len(xs) : i < j => ~StrLess(xs[j], xs[i])

Posted == last.op = "post" /\ last.status = 201
Merged == Posted /\ last.merged
Created == Posted /\ ~last.merged
Updated == last.op = "put" /\ last.status = 200
NotFound == last.op = "put" /\ last.status = 404

-----------------------------------------------------------------------------
(* C1 *)

\* C1: no two items with distinct ids have names that are equal after
\* trimming and lowercasing.
C1_UniqueNames ==
    \A i, j \in 1..Len(Collection) :
        Collection[i]["id"] # Collection[j]["id"]
            => Key(Collection[i]["name"]) # Key(Collection[j]["name"])

-----------------------------------------------------------------------------
(* C2 *)

\* C2: ids are pairwise distinct and strictly positive; a create that does
\* not merge assigns max(existing ids) + 1, or 1 when the collection is
\* empty; N creates with pairwise distinct name keys yield N distinct ids.
C2_Ids ==
    /\ \A i, j \in 1..Len(Collection) :
            i # j => Collection[i]["id"] # Collection[j]["id"]
    /\ \A i \in 1..Len(Collection) : Collection[i]["id"] > 0
    /\ Created =>
        /\ Collection = Append(PrevCollection, last.result)
        /\ PrevCollection = <<>> => last.result["id"] = 1
        /\ PrevCollection # <<>> =>
              /\ last.result["id"] - 1 \in Ids(PrevCollection)
              /\ \A x \in Ids(PrevCollection) : x < last.result["id"]
    /\ createdOnly =>
        /\ Len(Collection) = Cardinality(DOMAIN requested)
        /\ Cardinality(Ids(Collection)) = Cardinality(DOMAIN requested)

\* Three creates with distinct names have been given the ids 1, 2, 3.
C2_Witness ==
    /\ createdOnly /\ Created
    /\ Cardinality(DOMAIN requested) = 3
    /\ Ids(Collection) = {1, 2, 3}
    /\ last.result["id"] = 3

-----------------------------------------------------------------------------
(* C3 *)

\* C3: while only creates have been served, all requests with the same name
\* key are in exactly one item, whose quantity is the sum of their
\* quantities.
C3_MergeSum ==
    createdOnly =>
        \A k \in DOMAIN requested :
            /\ Cardinality(WithKey(Collection, k)) = 1
            /\ \A i \in WithKey(Collection, k) :
                    Collection[i]["quantity"] = requested[k]

\* "M" with 3, then "e", then " m " with 5: the first item holds 8.
C3_Witness ==
    /\ createdOnly /\ Merged
    /\ nops = 3
    /\ Len(Collection) = 2
    /\ last.item.name = <<32, 109, 32>>
    /\ last.item.quantity = 5
    /\ Collection[1]["name"] = <<77>>
    /\ Collection[1]["quantity"] = 8
    /\ Collection[2]["name"] = <<101>>

-----------------------------------------------------------------------------
(* C4 *)

AllNoDup(c) == \A i \in 1..Len(c) : NoDup(c[i]["expiry_dates"])

\* The last request was an update that supplied a list with duplicates.
DuplicatesSupplied ==
    /\ Updated
    /\ "expiry_dates" \in DOMAIN last.body
    /\ ~NoDup(last.body["expiry_dates"])

\* C4 (as stated): after any mutation every item's expiry_dates contains no
\* duplicate entries.
C4_NoDuplicates == AllNoDup(Collection)

\* C4 (amended): a request leaves every item's expiry_dates free of
\* duplicates if they were so before it, unless it is an update-by-id whose
\* supplied expiry_dates itself contains duplicates.
C4_NoNewDuplicates ==
    (AllNoDup(PrevCollection) /\ ~DuplicatesSupplied) => AllNoDup(Collection)

\* A merge of a date the item already has.
C4_Witness ==
    /\ Merged
    /\ AllNoDup(PrevCollection)
    /\ \E i \in WithId(PrevCollection, last.result["id"]) :
            In(last.item.expiry_date, PrevCollection[i]["expiry_dates"])
    /\ AllNoDup(Collection)

-----------------------------------------------------------------------------
(* C5 *)

\* C5: after a create-or-merge, and after an update-by-id that supplies
\* expiry_dates, the expiry_dates of the affected item is in ascending
\* lexical order.
C5_Sorted ==
    (Posted \/ (Updated /\ "expiry_dates" \in DOMAIN last.body)) =>
        /\ WithId(Collection, last.result["id"]) # {}
        /\ \A i \in WithId(Collection, last.result["id"]) :
                Ascending(Collection[i]["expiry_dates"])

\* "10" merged into ["9"] gives ["10", "9"].
C5_Witness ==
    /\ Merged
    /\ last.item.expiry_date = <<49, 48>>
    /\ \E i \in WithId(PrevCollection, last.result["id"]) :
            PrevCollection[i]["expiry_dates"] = << <<57>> >>
    /\ last.result["expiry_dates"] = << <<49, 48>>, <<57>> >>

-----------------------------------------------------------------------------
(* C6 *)

\* C6: a create stores the date exactly once, and a merge appends the date
\* only if it is not already present: a date the item already has keeps its
\* number of occurrences and the list keeps its length, an absent date occurs
\* once afterwards and the list grows by one.
C6_DateOnce ==
    /\ Created => last.result["expiry_dates"] = <<last.item.expiry_date>>
    /\ Merged =>
        \A i \in WithId(PrevCollection, last.result["id"]) :
            LET before == PrevCollection[i]["expiry_dates"]
                after == Collection[i]["expiry_dates"]
                d == last.item.expiry_date
            IN /\ Count(d, after) = (IF In(d, before) THEN Count(d, before) ELSE 1)
               /\ Len(after) = (IF In(d, before) THEN Len(before) ELSE Len(before) + 1)
               /\ \A x \in Dates \ {d} : Count(x, after) = Count(x, before)

\* The same name with the same date a second time: the date is there once.
C6_Witness ==
    /\ Merged
    /\ \E i \in WithId(PrevCollection, last.result["id"]) :
            PrevCollection[i]["expiry_dates"] = <<last.item.expiry_date>>
    /\ last.result["expiry_dates"] = <<last.item.expiry_date>>
    /\ Cardinality(WithKey(Collection, Key(last.item.name))) = 1

-----------------------------------------------------------------------------
(* C7 *)

\* C7: an update-by-id with an id that no item has reports not-found and
\* leaves the persisted collection as it was (nothing is saved).
C7_NotFoundNoChange ==
    (last.op = "put" /\ last.item_id \notin Ids(PrevCollection)) =>
        /\ last.status = 404
        /\ pantry_db = prev

\* An update of id 999 in a store that holds an item.
C7_Witness ==
    /\ NotFound
    /\ last.item_id = 999
    /\ Len(PrevCollection) >= 1
    /\ pantry_db = prev

-----------------------------------------------------------------------------
(* C8 *)

\* C8: a successful update-by-id changes only the fields present in the
\* body, on the item with the matching id: its id and omitted fields, and
\* every other item, are unchanged.
C8_UpdateFrame ==
    Updated =>
        /\ Len(Collection) = Len(PrevCollection)
        /\ Cardinality(WithId(PrevCollection, last.item_id)) = 1
        /\ \A i \in 1..Len(PrevCollection) :
              IF PrevCollection[i]["id"] = last.item_id
              THEN /\ DOMAIN Collection[i] = DOMAIN PrevCollection[i]
                   /\ Collection[i]["id"] = last.item_id
                   /\ \A f \in UpdateFields \ DOMAIN last.body :
                          Collection[i][f] = PrevCollection[i][f]
                   /\ "quantity" \in DOMAIN last.body =>
                          Collection[i]["quantity"] = last.body["quantity"]
                   /\ "unit" \in DOMAIN last.body =>
                          Collection[i]["unit"] = last.body["unit"]
                   /\ last.result = Collection[i]
              ELSE Collection[i] = PrevCollection[i]

\* Item 1 of two items is updated with {quantity: 0}.
C8_Witness ==
    /\ Updated
    /\ DOMAIN last.body = {"quantity"}
    /\ Len(Collection) = 2
    /\ PrevCollection[1]["quantity"] # 0
    /\ Collection[1]["quantity"] = 0
    /\ Collection[1]["name"] = PrevCollection[1]["name"]
    /\ Collection[1]["unit"] = PrevCollection[1]["unit"]
    /\ Collection[1]["expiry_dates"] = PrevCollection[1]["expiry_dates"]

-----------------------------------------------------------------------------
(* C9 *)

\* C9: a merge leaves the existing item's id, name and unit unchanged, leaves
\* every other item unchanged and adds no item.
C9_MergeFrame ==
    Merged =>
        /\ Len(Collection) = Len(PrevCollection)
        /\ WithKey(PrevCollection, Key(last.item.name)) # {}
        /\ \A i \in 1..Len(PrevCollection) :
              IF /\ i \in WithKey(PrevCollection, Key(last.item.name))
                 /\ \A j \in WithKey(PrevCollection, Key(last.item.name)) : i <= j
              THEN /\ Collection[i]["id"] = PrevCollection[i]["id"]
                   /\ Collection[i]["name"] = PrevCollection[i]["name"]
                   /\ Collection[i]["unit"] = PrevCollection[i]["unit"]
                   /\ last.result = Collection[i]
              ELSE Collection[i] = PrevCollection[i]

\* A merge whose request spells the name and the unit differently.
C9_Witness ==
    /\ Merged
    /\ last.item.name # last.result["name"]
    /\ last.item.unit # last.result["unit"]
    /\ Collection[1] = last.result
    /\ Collection[1]["unit"] = PrevCollection[1]["unit"]

-----------------------------------------------------------------------------
(* C10 *)

\* C10: no request changes the id of an existing item, and the id given to a
\* new item has never been the id of another item (items are never removed,
\* so the ids ever assigned are the ids in the collection).
C10_IdStable ==
    [][ /\ Len(Collection') >= Len(Collection)
        /\ \A i \in 1..Len(Collection) :
              Collection'[i]["id"] = Collection[i]["id"]
        /\ \A j \in (Len(Collection) + 1)..Len(Collection') :
              Collection'[j]["id"] \notin Ids(Collection) ]_vars

\* An item is created after item 1 has been renamed by an update.
C10_Witness ==
    /\ Created
    /\ nops = 3
    /\ Len(PrevCollection) = 1
    /\ PrevCollection[1]["id"] = 1
    /\ PrevCollection[1]["name"] = <<101>>
    /\ last.item.name = <<77>>
    /\ ~createdOnly
    /\ Collection[1]["id"] = 1
    /\ last.result["id"] = 2

-----------------------------------------------------------------------------
(* C11 *)

\* The storage before the last request was missing, not JSON, or not a list.
PrevUnusable == ~prev.exists \/ prev.kind # "list"

\* C11: load never fails the caller and returns an empty sequence when the
\* storage is missing, unparseable or not an array, so that list, create and
\* update treat such storage as an empty collection: list returns nothing,
\* create makes item 1 and update reports not-found.
C11_LoadNeverFails ==
    (last.op \in {"get", "post", "put"} /\ PrevUnusable) =>
        /\ last.status # 500
        /\ last.op = "get" => last.result = <<>>
        /\ last.op = "post" =>
              /\ ~last.merged
              /\ last.result["id"] = 1
              /\ Collection = <<last.result>>
        /\ last.op = "put" => last.status = 404

-----------------------------------------------------------------------------
(* C12 *)

\* C12: save replaces the persisted collection atomically: the storage that
\* a load observes is always a whole collection (the one before a save or
\* the one it was given), never anything else.
C12_AtomicSave ==
    \A w \in Workers :
        requests[w].pc # "idle" =>
            /\ requests[w].snap.kind = "list"
            /\ ~_load_db_raises(requests[w].snap)

-----------------------------------------------------------------------------
(* C13 *)

\* C13: normalize is idempotent: normalizing a normalized record returns it
\* unchanged.
C13_Idempotent == last.times = 2 => last.row = last.input

\* A legacy record that also has expiry_dates, normalized twice.
C13_Witness ==
    /\ last.times = 2
    /\ "expiry_date" \in DOMAIN last.row
    /\ last.row["expiry_dates"] = << <<57>>, <<49, 48>> >>
    /\ last.row = last.input

-----------------------------------------------------------------------------
(* C14 *)

Canonical(row) ==
    /\ "expiry_dates" \in DOMAIN row
    /\ Ascending(row["expiry_dates"])
    /\ NoDup(row["expiry_dates"])

\* C14 (as stated): the output of normalize has an expiry_dates field that
\* is sorted ascending and contains no duplicates.
C14_Canonical == last.times >= 1 => Canonical(last.row)

\* C14 (amended): the output of normalize has an expiry_dates field, and the
\* field is sorted ascending and free of duplicates whenever the record had
\* no expiry_dates or had one that was sorted and free of duplicates.
C14_Present ==
    last.times >= 1 =>
        /\ "expiry_dates" \in DOMAIN last.row
        /\ ("expiry_dates" \in DOMAIN last.input => Canonical(last.input))
              => Canonical(last.row)

\* A record with neither field, normalized once.
C14_Witness ==
    /\ last.times = 1
    /\ "expiry_dates" \notin DOMAIN last.input
    /\ "expiry_date" \notin DOMAIN last.input
    /\ Canonical(last.row)

-----------------------------------------------------------------------------
(* C15 *)

\* The last request was a list that succeeded / that applied no filter.
Listed == last.op = "get" /\ last.status = 200
Unfiltered == "q" \notin DOMAIN last.params \/ strip(last.params["q"]) = <<>>

\* C15: on read, a record without expiry_dates but with a legacy expiry_date
\* d is presented with expiry_dates = [d], a record with neither with [],
\* a record with expiry_dates keeps it whatever its expiry_date, and the
\* listed item carries no expiry_date field.
C15_LegacyUpgrade ==
    (Listed /\ Unfiltered) =>
        /\ Len(last.result) = Len(Collection)
        /\ \A i \in 1..Len(Collection) :
              LET raw == Collection[i]
                  out == last.result[i]
              IN /\ DOMAIN out = {"id", "name", "quantity", "unit", "expiry_dates"}
                 /\ out["id"] = raw["id"]
                 /\ "expiry_dates" \in DOMAIN raw =>
                        out["expiry_dates"] = raw["expiry_dates"]
                 /\ ("expiry_dates" \notin DOMAIN raw /\ "expiry_date" \in DOMAIN raw) =>
                        out["expiry_dates"] = <<raw["expiry_date"]>>
                 /\ ("expiry_dates" \notin DOMAIN raw /\ "expiry_date" \notin DOMAIN raw) =>
                        out["expiry_dates"] = <<>>

\* The stored rows Both (both fields) and Beer (neither) are listed.
C15_Witness ==
    /\ Listed /\ Unfiltered
    /\ Collection = <<Both, Beer>>
    /\ last.result[1]["expiry_dates"] = << <<49, 48>> >>
    /\ last.result[2]["expiry_dates"] = <<>>
    /\ "expiry_date" \notin DOMAIN last.result[1]

-----------------------------------------------------------------------------
(* C16 *)

\* C16: list never changes the persisted state, and the persisted state
\* changes only by a successful create-or-merge or update-by-id.
C16_ListReadOnly ==
    /\ last.op = "get" => pantry_db = prev
    /\ pantry_db # prev => (Posted \/ Updated)

\* A legacy row has been listed with its expiry_dates and is stored as before.
C16_Witness ==
    /\ Listed /\ Unfiltered
    /\ Collection # <<>>
    /\ Collection[1] = Bread
    /\ "expiry_dates" \notin DOMAIN Collection[1]
    /\ last.result[1]["expiry_dates"] = << <<57>> >>
    /\ pantry_db = prev

-----------------------------------------------------------------------------
(* C17 *)

Done(w) == requests[w].pc = "done"
Succeeded(w) == Done(w) /\ requests[w].status \in {200, 201}

\* v and w loaded the same persisted collection, both saved, w after v.
Overlapped(v, w) ==
    /\ v # w
    /\ Succeeded(v) /\ Succeeded(w)
    /\ requests[v].seen = requests[w].seen
    /\ requests[v].savedAs < requests[w].savedAs
    /\ requests[w].savedAs = last.saves

\* C17: without locking an update can be lost: when two requests that both
\* succeed have loaded the same collection, the persisted collection after
\* both saves is what the later saver alone makes of that collection; the
\* earlier saver's change is not in it.
C17_LastSaveWins ==
    \A v, w \in Workers :
        Overlapped(v, w) =>
            pantry_db = handle(requests[w].req, requests[v].snap).file

\* Two creates of different names are both answered 201, and only the item
\* of the one that saved last is stored.
C17_Witness ==
    \E v, w \in Workers :
        /\ Overlapped(v, w)
        /\ requests[v].req.op = "post" /\ requests[w].req.op = "post"
        /\ Key(requests[v].req.item.name) # Key(requests[w].req.item.name)
        /\ Len(Collection) = 1
        /\ Collection[1] = requests[w].result
        /\ WithKey(Collection, Key(requests[v].req.item.name)) = {}

-----------------------------------------------------------------------------
(* C18 *)

\* t occurs in s.
Contains(s, t) ==
    \E i \in 1..(Len(s) - Len(t) + 1) : SubSeq(s, i, i + Len(t) - 1) = t

\* The rows of c at the indices idx, in the order of c, as listed items.
Listing(c, idx) ==
    [k \in 1..Cardinality(idx) |->
        PantryItem(_normalize_row(
            c[CHOOSE i \in idx : Cardinality({j \in idx : j < i}) = k - 1]))]

\* The indices of the rows whose name contains the query, ignoring case.
NameMatches(c, query) ==
    {i \in 1..Len(c) : Contains(lower(c[i]["name"]), lower(query))}

\* Creates and updates keep the stored order and append new items.
OrderKept ==
    (Posted \/ Updated) =>
        /\ Len(Collection) = Len(PrevCollection) + (IF Created THEN 1 ELSE 0)
        /\ \A i \in 1..Len(PrevCollection) :
              Collection[i]["id"] = PrevCollection[i]["id"]
        /\ Created => Collection[Len(Collection)] = last.result

\* C18 (as stated): with a filter that is non-blank after trimming, list
\* returns exactly the items whose name contains the filter, ignoring case,
\* in stored order; with no or a blank filter it returns every item in
\* stored order; creates and updates never reorder items.
C18_FilterAsGiven ==
    /\ Listed =>
          last.result =
              Listing(Collection,
                      IF Unfiltered THEN 1..Len(Collection)
                      ELSE NameMatches(Collection, last.params["q"]))
    /\ OrderKept

\* C18 (amended): as stated, with the filter trimmed before it is matched:
\* list returns exactly the items whose name contains the trimmed filter,
\* ignoring case.
C18_FilterTrimmed ==
    /\ Listed =>
          last.result =
              Listing(Collection,
                      IF Unfiltered THEN 1..Len(Collection)
                      ELSE NameMatches(Collection, strip(last.params["q"])))
    /\ OrderKept

\* " EG " lists "Egg" alone out of Bread, Beer, Egg.
C18_Witness ==
    /\ Listed
    /\ last.params = [q |-> <<32, 69, 71, 32>>]
    /\ Len(Collection) = 3
    /\ Collection[3] = Eggs
    /\ last.result = <<Eggs>>

-----------------------------------------------------------------------------
(* C19 *)

Trimmed(name) ==
    name = <<>> \/ (Head(name) \notin Whitespace /\ name[Len(name)] \notin Whitespace)

\* C19: every stored name is trimmed: after any creates and updates from an
\* empty store no name has leading or trailing whitespace.
C19_NamesTrimmed ==
    \A i \in 1..Len(Collection) : Trimmed(Collection[i]["name"])

\* An update with the name " e " has stored "e".
C19_Witness ==
    /\ Updated
    /\ "name" \in DOMAIN last.body
    /\ last.body["name"] = <<32, 101, 32>>
    /\ last.result["name"] = <<101>>
    /\ \E i \in WithId(Collection, last.item_id) : Collection[i]["name"] = <<101>>

-----------------------------------------------------------------------------
(* C20 *)

\* C20: with loads and saves as atomic steps, under any interleaving of
\* concurrent creates and updates every persisted collection has pairwise
\* distinct, strictly positive ids.
C20_StoredIdsDistinct ==
    /\ \A i, j \in 1..Len(Collection) :
            i # j => Collection[i]["id"] # Collection[j]["id"]
    /\ \A i \in 1..Len(Collection) : Collection[i]["id"] > 0

\* After one item is stored, two concurrent creates of different names are
\* both answered with id 2; one of them is stored.
C20_Witness ==
    \E v, w \in Workers :
        /\ Overlapped(v, w)
        /\ requests[v].req.op = "post" /\ requests[w].req.op = "post"
        /\ Key(requests[v].req.item.name) # Key(requests[w].req.item.name)
        /\ requests[v].result["id"] = 2
        /\ requests[w].result["id"] = 2
        /\ Ids(Collection) = {1, 2}
        /\ Len(Collection) = 2

====
